---- MODULE Spec2Model ----
(***************************************************************************)
(* ClaimService (src/src/claim/claim.service.ts): the claim lifecycle as   *)
(* a set of concurrently running async operations over one claim           *)
(* repository.                                                             *)
(*                                                                         *)
(* Every `await` of the service is a suspension point.  An action is the   *)
(* code that runs when the previous awaited call resolves, up to and       *)
(* including the effect of the next awaited call on the outside world (a   *)
(* repository read takes its snapshot, a repository save writes, a         *)
(* collaborator is invoked).  What the call returns is consumed by the     *)
(* next action of the same operation, so other operations can act between  *)
(* a read and the code that uses it.                                       *)
(***************************************************************************)
EXTENDS Integers, FiniteSets, Sequences, TLC

MaxClaims == 1
MaxCalls == 3

ClaimIds == 1..MaxClaims
Callers == 1..MaxCalls
Background == (MaxCalls + 1)..(MaxCalls + MaxClaims)
Procs == Callers \cup Background

BackgroundOf(id) == MaxCalls + id

Statuses == {"PENDING", "APPROVED", "REJECTED", "FLAGGED"}

Verdicts == {"approved", "rejected", "maybe"}

FraudResults ==
    { [isFraudulent |-> FALSE, confidenceScore |-> 1, reason |-> "clean"],
      [isFraudulent |-> TRUE, confidenceScore |-> 9, reason |-> "suspicious"] }

UpdateDtos == [status : Statuses \cup {"absent"}]

NullClaim ==
    [id |-> 0, user |-> FALSE, status |-> "null",
     fraudCheckCompleted |-> FALSE, isFraudulent |-> FALSE,
     fraudConfidenceScore |-> -1, fraudDetectionData |-> "null",
     oracleData |-> "null"]

NewClaim(id, u) ==
    [id |-> id, user |-> u, status |-> "PENDING",
     fraudCheckCompleted |-> FALSE, isFraudulent |-> FALSE,
     fraudConfidenceScore |-> -1, fraudDetectionData |-> "null",
     oracleData |-> "null"]

EmptyStore == [id \in ClaimIds |-> NullClaim]

ParallelCounts ==
    {"total", "pending", "approved", "rejected", "flagged", "fraudulent"}

NoCounts ==
    [f \in ParallelCounts \cup {"fraudCheckCompleted"} |-> -1]

IdleTask ==
    [kind |-> "none", pc |-> "idle", id |-> 0,
     claim |-> NullClaim, fclaim |-> NullClaim,
     dto |-> "none", allowed |-> TRUE, prev |-> "none", verdict |-> "none",
     result |-> "none", screening |-> "none",
     oracleCalls |-> 0, notifyCalls |-> 0, notifyFailed |-> FALSE,
     writes |-> 0,
     counts |-> NoCounts, fraudCheckPending |-> 0,
     seen |-> EmptyStore, stable |-> TRUE]

VARIABLES store, nextId, task, detectCalls

vars == <<store, nextId, task, detectCalls>>

Init ==
    /\ store = EmptyStore
    /\ nextId = 1
    /\ task = [p \in Procs |-> IdleTask]
    /\ detectCalls = [id \in ClaimIds |-> 0]

----------------------------------------------------------------------------
(* Pure parts of the handlers. *)

ScreenedClaimNoFlag(c, r) ==
    [c EXCEPT !.fraudCheckCompleted = TRUE,
              !.isFraudulent = r.isFraudulent,
              !.fraudConfidenceScore = r.confidenceScore,
              !.fraudDetectionData = r.reason]

ScreenedClaim(c, r) ==
    [c EXCEPT !.fraudCheckCompleted = TRUE,
              !.isFraudulent = r.isFraudulent,
              !.fraudConfidenceScore = r.confidenceScore,
              !.fraudDetectionData = r.reason,
              !.status = IF r.isFraudulent THEN "FLAGGED" ELSE c.status]

ScreenFailedClaimUnmarked(c) ==
    c

ScreenFailedClaim(c) ==
    [c EXCEPT !.fraudCheckCompleted = TRUE]

VerdictStatusRejectsUnknown(v) ==
    IF v = "approved" THEN "APPROVED" ELSE "REJECTED"

VerdictStatus(v) ==
    IF v = "approved" THEN "APPROVED"
    ELSE IF v = "rejected" THEN "REJECTED"
    ELSE "PENDING"

VerdictClaim(c, v) ==
    [c EXCEPT !.status = VerdictStatus(v), !.oracleData = v]

ReloadAssignSkipped(c, updated) == c

ReloadAssign(c, updated) ==
    IF updated # NullClaim THEN updated ELSE c

AssignDto(c, dto) ==
    IF dto.status = "absent" THEN c ELSE [c EXCEPT !.status = dto.status]

Save(c) == [store EXCEPT ![c.id] = c]

----------------------------------------------------------------------------
(* Operation bookkeeping. *)

NextCaller(t) ==
    /\ t \in Callers
    /\ task[t].pc = "idle"
    /\ \A s \in Callers : s < t => task[s].pc # "idle"

Quiet == \A p \in Procs : task[p].pc \in {"idle", "scheduled", "done"}

----------------------------------------------------------------------------
(* create: lines 33-65. *)

CreateSaveScreeningFirst(t, u) ==
    /\ NextCaller(t)
    /\ nextId \in ClaimIds
    /\ store' = Save(NewClaim(nextId, u))
    /\ nextId' = nextId + 1
    /\ task' = [task EXCEPT
                  ![t] = [@ EXCEPT !.kind = "create", !.pc = "created",
                                   !.id = nextId,
                                   !.claim = NewClaim(nextId, u),
                                   !.writes = 1],
                  ![BackgroundOf(nextId)] =
                     [IdleTask EXCEPT !.kind = "background",
                                      !.pc = "rfdLoaded", !.id = nextId,
                                      !.fclaim = NewClaim(nextId, u)]]
    /\ UNCHANGED detectCalls

CreateSave(t, u) ==
    /\ NextCaller(t)
    /\ nextId \in ClaimIds
    /\ store' = Save(NewClaim(nextId, u))
    /\ nextId' = nextId + 1
    /\ task' = [task EXCEPT ![t] =
                  [@ EXCEPT !.kind = "create", !.pc = "created",
                            !.id = nextId, !.claim = NewClaim(nextId, u),
                            !.writes = 1]]
    /\ UNCHANGED detectCalls

ReturnUnscheduled(t, tk) ==
    task' = [task EXCEPT ![t] = [tk EXCEPT !.pc = "done", !.result = "ok"]]

ScheduleAndReturn(t, tk) ==
    task' = [task EXCEPT
               ![t] = [tk EXCEPT !.pc = "done", !.result = "ok"],
               ![BackgroundOf(tk.id)] =
                  [IdleTask EXCEPT !.kind = "background", !.pc = "scheduled",
                                   !.id = tk.id]]

CreateNotify(t) ==
    /\ task[t].pc = "created"
    /\ IF task[t].claim.user
       THEN task' = [task EXCEPT ![t] =
                       [@ EXCEPT !.pc = "submitNotifying",
                                 !.notifyCalls = @ + 1]]
       ELSE ScheduleAndReturn(t, task[t])
    /\ UNCHANGED <<store, nextId, detectCalls>>

CreateNotified(t, delivered) ==
    /\ task[t].pc = "submitNotifying"
    /\ ScheduleAndReturn(t, [task[t] EXCEPT !.notifyFailed = ~delivered])
    /\ UNCHANGED <<store, nextId, detectCalls>>

----------------------------------------------------------------------------
(* runFraudDetection: lines 296-352, and its fire-and-forget wrapper,      *)
(* lines 357-366.  It runs as an operation of its own (kind "screen"), as  *)
(* the timer callback scheduled by create (kind "background") and inside   *)
(* processClaim (kind "process").                                          *)

RfdReturns(t, outcome) ==
    IF task[t].kind = "process"
    THEN task' = [task EXCEPT ![t] =
                    [@ EXCEPT !.screening = outcome, !.pc = "reloaded",
                              !.claim = ReloadAssign(@, store[task[t].id])]]
    ELSE task' = [task EXCEPT ![t] =
                    [@ EXCEPT !.screening = outcome, !.pc = "done",
                              !.result = "ok"]]

RfdThrowsSwallowed(t, outcome, err) ==
    RfdReturns(t, outcome)

RfdThrows(t, outcome, err) ==
    task' = [task EXCEPT ![t] =
               [@ EXCEPT !.screening = outcome, !.pc = "done",
                         !.result = IF task[t].kind = "background"
                                    THEN "ok" ELSE err]]

ScreenStart(t, id) ==
    /\ NextCaller(t)
    /\ task' = [task EXCEPT ![t] =
                  [@ EXCEPT !.kind = "screen", !.pc = "rfdLoaded",
                            !.id = id, !.fclaim = store[id]]]
    /\ UNCHANGED <<store, nextId, detectCalls>>

BackgroundStart(b) ==
    /\ b \in Background
    /\ task[b].pc = "scheduled"
    /\ task' = [task EXCEPT ![b] =
                  [@ EXCEPT !.pc = "rfdLoaded",
                            !.fclaim = store[task[b].id]]]
    /\ UNCHANGED <<store, nextId, detectCalls>>

RfdLoadedNoGuard(t) ==
    /\ task[t].pc = "rfdLoaded"
    /\ IF task[t].fclaim = NullClaim
       THEN /\ RfdThrows(t, "notfound", "NotFoundException")
            /\ UNCHANGED detectCalls
       ELSE /\ task' = [task EXCEPT ![t].pc = "detecting"]
            /\ detectCalls' = [detectCalls EXCEPT ![task[t].id] = @ + 1]
    /\ UNCHANGED <<store, nextId>>

RfdLoaded(t) ==
    /\ task[t].pc = "rfdLoaded"
    /\ IF task[t].fclaim = NullClaim
       THEN /\ RfdThrows(t, "notfound", "NotFoundException")
            /\ UNCHANGED detectCalls
       ELSE IF task[t].fclaim.fraudCheckCompleted
       THEN /\ RfdReturns(t, "noop")
            /\ UNCHANGED detectCalls
       ELSE /\ task' = [task EXCEPT ![t].pc = "detecting"]
            /\ detectCalls' = [detectCalls EXCEPT ![task[t].id] = @ + 1]
    /\ UNCHANGED <<store, nextId>>

DetectSucceeds(t, r) ==
    /\ task[t].pc = "detecting"
    /\ store' = Save(ScreenedClaim(task[t].fclaim, r))
    /\ task' = [task EXCEPT ![t] =
                  [@ EXCEPT !.pc = "rfdSaved",
                            !.fclaim = ScreenedClaim(@, r),
                            !.screening = IF r.isFraudulent
                                          THEN "fraud" ELSE "clean",
                            !.writes = @ + 1]]
    /\ UNCHANGED <<nextId, detectCalls>>

DetectFails(t) ==
    /\ task[t].pc = "detecting"
    /\ store' = Save(ScreenFailedClaim(task[t].fclaim))
    /\ task' = [task EXCEPT ![t] =
                  [@ EXCEPT !.pc = "rfdFailSaved",
                            !.fclaim = ScreenFailedClaim(@),
                            !.screening = "failed",
                            !.writes = @ + 1]]
    /\ UNCHANGED <<nextId, detectCalls>>

RfdSaved(t) ==
    /\ task[t].pc = "rfdSaved"
    /\ RfdReturns(t, task[t].screening)
    /\ UNCHANGED <<store, nextId, detectCalls>>

RfdFailSaved(t) ==
    /\ task[t].pc = "rfdFailSaved"
    /\ RfdThrows(t, "failed", "FraudServiceError")
    /\ UNCHANGED <<store, nextId, detectCalls>>

----------------------------------------------------------------------------
(* processClaim: lines 202-291. *)

NotProcessableOnlyMissing(c) ==
    c = NullClaim

NotProcessable(c) ==
    c = NullClaim \/ c.status # "PENDING"

FraudGateSkipped(t, tk) ==
    task' = [task EXCEPT ![t] =
               [tk EXCEPT !.pc = "verifying", !.oracleCalls = @ + 1]]

FraudGate(t, tk) ==
    IF tk.claim.isFraudulent
    THEN task' = [task EXCEPT ![t] =
                    [tk EXCEPT !.pc = "done", !.result = "ok"]]
    ELSE task' = [task EXCEPT ![t] =
                    [tk EXCEPT !.pc = "verifying", !.oracleCalls = @ + 1]]

ProcessStart(t, id) ==
    /\ NextCaller(t)
    /\ task' = [task EXCEPT ![t] =
                  [@ EXCEPT !.kind = "process", !.pc = "loaded",
                            !.id = id, !.claim = store[id]]]
    /\ UNCHANGED <<store, nextId, detectCalls>>

ProcessLoadedAlwaysScreens(t) ==
    /\ task[t].pc = "loaded"
    /\ IF NotProcessable(task[t].claim)
       THEN task' = [task EXCEPT ![t] =
                       [@ EXCEPT !.pc = "done",
                                 !.result = "NotFoundException"]]
       ELSE task' = [task EXCEPT ![t] =
                       [@ EXCEPT !.pc = "rfdLoaded",
                                 !.fclaim = store[task[t].id]]]
    /\ UNCHANGED <<store, nextId, detectCalls>>

ProcessLoaded(t) ==
    /\ task[t].pc = "loaded"
    /\ IF NotProcessable(task[t].claim)
       THEN task' = [task EXCEPT ![t] =
                       [@ EXCEPT !.pc = "done",
                                 !.result = "NotFoundException"]]
       ELSE IF ~task[t].claim.fraudCheckCompleted
       THEN task' = [task EXCEPT ![t] =
                       [@ EXCEPT !.pc = "rfdLoaded",
                                 !.fclaim = store[task[t].id]]]
       ELSE FraudGate(t, task[t])
    /\ UNCHANGED <<store, nextId, detectCalls>>

ProcessReloaded(t) ==
    /\ task[t].pc = "reloaded"
    /\ FraudGate(t, task[t])
    /\ UNCHANGED <<store, nextId, detectCalls>>

VerifySucceeds(t, v) ==
    /\ task[t].pc = "verifying"
    /\ store' = Save(VerdictClaim(task[t].claim, v))
    /\ task' = [task EXCEPT ![t] =
                  [@ EXCEPT !.pc = "verdictSaved", !.verdict = v,
                            !.claim = VerdictClaim(@, v),
                            !.writes = @ + 1]]
    /\ UNCHANGED <<nextId, detectCalls>>

VerifyFailsRejects(t) ==
    /\ task[t].pc = "verifying"
    /\ store' = Save([task[t].claim EXCEPT !.status = "REJECTED"])
    /\ task' = [task EXCEPT ![t] =
                  [@ EXCEPT !.pc = "done", !.result = "OracleError"]]
    /\ UNCHANGED <<nextId, detectCalls>>

VerifyFails(t) ==
    /\ task[t].pc = "verifying"
    /\ task' = [task EXCEPT ![t] =
                  [@ EXCEPT !.pc = "done", !.result = "OracleError"]]
    /\ UNCHANGED <<store, nextId, detectCalls>>

VerdictSaved(t) ==
    /\ task[t].pc = "verdictSaved"
    /\ IF task[t].claim.user
       THEN task' = [task EXCEPT ![t] =
                       [@ EXCEPT !.pc = "processNotifying",
                                 !.notifyCalls = @ + 1]]
       ELSE task' = [task EXCEPT ![t] =
                       [@ EXCEPT !.pc = "done", !.result = "ok"]]
    /\ UNCHANGED <<store, nextId, detectCalls>>

ProcessNotified(t, delivered) ==
    /\ task[t].pc = "processNotifying"
    /\ task' = [task EXCEPT ![t] =
                  [@ EXCEPT !.pc = "done", !.result = "ok",
                            !.notifyFailed = ~delivered]]
    /\ UNCHANGED <<store, nextId, detectCalls>>

----------------------------------------------------------------------------
(* update: lines 107-159. *)

UpdateStart(t, id, dto, isAdmin) ==
    /\ NextCaller(t)
    /\ task' = [task EXCEPT ![t] =
                  [@ EXCEPT !.kind = "update", !.pc = "updLoaded",
                            !.id = id, !.claim = store[id],
                            !.dto = dto.status, !.allowed = isAdmin]]
    /\ UNCHANGED <<store, nextId, detectCalls>>

UpdateLoaded(t) ==
    /\ task[t].pc = "updLoaded"
    /\ IF task[t].claim = NullClaim
       THEN /\ task' = [task EXCEPT ![t] =
                          [@ EXCEPT !.pc = "done",
                                    !.result = "NotFoundException"]]
            /\ UNCHANGED store
       ELSE IF ~task[t].allowed
       THEN /\ task' = [task EXCEPT ![t] =
                          [@ EXCEPT !.pc = "done",
                                    !.result = "ForbiddenException"]]
            /\ UNCHANGED store
       ELSE /\ store' = Save(AssignDto(task[t].claim, [status |-> task[t].dto]))
            /\ task' = [task EXCEPT ![t] =
                          [@ EXCEPT !.pc = "updSaved",
                                    !.prev = task[t].claim.status,
                                    !.claim = AssignDto(@, [status |-> task[t].dto]),
                                    !.writes = @ + 1]]
    /\ UNCHANGED <<nextId, detectCalls>>

UpdateSaved(t) ==
    /\ task[t].pc = "updSaved"
    /\ IF task[t].dto # "absent" /\ task[t].prev # task[t].dto
       THEN task' = [task EXCEPT ![t] =
                       [@ EXCEPT !.pc = "statusNotifying",
                                 !.notifyCalls = @ + 1]]
       ELSE task' = [task EXCEPT ![t] =
                       [@ EXCEPT !.pc = "done", !.result = "ok"]]
    /\ UNCHANGED <<store, nextId, detectCalls>>

UpdateNotified(t, delivered) ==
    /\ task[t].pc = "statusNotifying"
    /\ task' = [task EXCEPT ![t] =
                  [@ EXCEPT !.pc = "done",
                            !.notifyFailed = ~delivered,
                            !.result = IF ~delivered /\ ~task[t].claim.user
                                       THEN "TypeError" ELSE "ok"]]
    /\ UNCHANGED <<store, nextId, detectCalls>>

----------------------------------------------------------------------------
(* remove: lines 161-174. *)

RemoveStart(t, id, allowed) ==
    /\ NextCaller(t)
    /\ task' = [task EXCEPT ![t] =
                  [@ EXCEPT !.kind = "remove", !.pc = "rmLoaded",
                            !.id = id, !.claim = store[id],
                            !.allowed = allowed]]
    /\ UNCHANGED <<store, nextId, detectCalls>>

RemoveLoaded(t) ==
    /\ task[t].pc = "rmLoaded"
    /\ IF task[t].claim = NullClaim
       THEN /\ task' = [task EXCEPT ![t] =
                          [@ EXCEPT !.pc = "done",
                                    !.result = "NotFoundException"]]
            /\ UNCHANGED store
       ELSE IF ~task[t].allowed
       THEN /\ task' = [task EXCEPT ![t] =
                          [@ EXCEPT !.pc = "done",
                                    !.result = "ForbiddenException"]]
            /\ UNCHANGED store
       ELSE /\ store' = [store EXCEPT ![task[t].id] = NullClaim]
            /\ task' = [task EXCEPT ![t] =
                          [@ EXCEPT !.pc = "removed", !.writes = @ + 1]]
    /\ UNCHANGED <<nextId, detectCalls>>

Removed(t) ==
    /\ task[t].pc = "removed"
    /\ task' = [task EXCEPT ![t] =
                  [@ EXCEPT !.pc = "done", !.result = "ok"]]
    /\ UNCHANGED <<store, nextId, detectCalls>>

----------------------------------------------------------------------------
(* getClaimStats: lines 176-200.  The six counts of Promise.all are        *)
(* separate queries, each evaluated at a moment of its own and in any      *)
(* order; the seventh is issued when all six have resolved.  seen is the   *)
(* store the first count was evaluated on, and stable tells whether every  *)
(* later count saw that same store.                                        *)

CountWhere(f) ==
    LET Matches(c) ==
            CASE f = "total" -> TRUE
              [] f = "pending" -> c.status = "PENDING"
              [] f = "approved" -> c.status = "APPROVED"
              [] f = "rejected" -> c.status = "REJECTED"
              [] f = "flagged" -> c.status = "FLAGGED"
              [] f = "fraudulent" -> c.isFraudulent
              [] f = "fraudCheckCompleted" -> c.fraudCheckCompleted
    IN  Cardinality({id \in ClaimIds :
                        store[id] # NullClaim /\ Matches(store[id])})

FraudCheckPendingFromFraudulent(counts) ==
    counts["total"] - counts["fraudulent"]

FraudCheckPending(counts) ==
    counts["total"] - counts["fraudCheckCompleted"]

StatsStart(t) ==
    /\ NextCaller(t)
    /\ task' = [task EXCEPT ![t] =
                  [@ EXCEPT !.kind = "stats", !.pc = "counting"]]
    /\ UNCHANGED <<store, nextId, detectCalls>>

StatsCount(t, f) ==
    /\ task[t].pc = "counting"
    /\ f \in ParallelCounts
    /\ task[t].counts[f] = -1
    /\ LET first == \A g \in ParallelCounts : task[t].counts[g] = -1
           counted == [task[t].counts EXCEPT ![f] = CountWhere(f)]
       IN  task' = [task EXCEPT ![t] =
                      [@ EXCEPT !.counts = counted,
                                !.seen = IF first THEN store ELSE @,
                                !.stable = first \/ (@ /\ store = task[t].seen),
                                !.pc = IF \A g \in ParallelCounts :
                                             counted[g] # -1
                                       THEN "counted" ELSE "counting"]]
    /\ UNCHANGED <<store, nextId, detectCalls>>

StatsLast(t) ==
    /\ task[t].pc = "counted"
    /\ LET counted == [task[t].counts EXCEPT
                          !["fraudCheckCompleted"] =
                              CountWhere("fraudCheckCompleted")]
       IN  task' = [task EXCEPT ![t] =
                      [@ EXCEPT !.counts = counted,
                                !.fraudCheckPending = FraudCheckPending(counted),
                                !.stable = @ /\ store = task[t].seen,
                                !.pc = "done", !.result = "ok"]]
    /\ UNCHANGED <<store, nextId, detectCalls>>

----------------------------------------------------------------------------
(* Specifications. *)

ProtocolStart ==
    \/ \E t \in Callers, u \in BOOLEAN : CreateSave(t, u)
    \/ \E t \in Callers, id \in ClaimIds : ScreenStart(t, id)
    \/ \E t \in Callers, id \in ClaimIds : ProcessStart(t, id)
    \/ \E b \in Background : BackgroundStart(b)

AdminStart ==
    \/ \E t \in Callers, id \in ClaimIds, dto \in UpdateDtos, a \in BOOLEAN :
          UpdateStart(t, id, dto, a)
    \/ \E t \in Callers, id \in ClaimIds, a \in BOOLEAN :
          RemoveStart(t, id, a)

ProtocolStep ==
    \/ \E t \in Procs : CreateNotify(t)
    \/ \E t \in Procs, d \in BOOLEAN : CreateNotified(t, d)
    \/ \E t \in Procs : RfdLoaded(t)
    \/ \E t \in Procs, r \in FraudResults : DetectSucceeds(t, r)
    \/ \E t \in Procs : DetectFails(t)
    \/ \E t \in Procs : RfdSaved(t)
    \/ \E t \in Procs : RfdFailSaved(t)
    \/ \E t \in Procs : ProcessLoaded(t)
    \/ \E t \in Procs : ProcessReloaded(t)
    \/ \E t \in Procs, v \in Verdicts : VerifySucceeds(t, v)
    \/ \E t \in Procs : VerifyFails(t)
    \/ \E t \in Procs : VerdictSaved(t)
    \/ \E t \in Procs, d \in BOOLEAN : ProcessNotified(t, d)

AdminStep ==
    \/ \E t \in Procs : UpdateLoaded(t)
    \/ \E t \in Procs : UpdateSaved(t)
    \/ \E t \in Procs, d \in BOOLEAN : UpdateNotified(t, d)
    \/ \E t \in Procs : RemoveLoaded(t)
    \/ \E t \in Procs : Removed(t)

Next == ProtocolStart \/ AdminStart \/ ProtocolStep \/ AdminStep

Spec == Init /\ [][Next]_vars

ProtocolNext == ProtocolStart \/ ProtocolStep

ProtocolSpec == Init /\ [][ProtocolNext]_vars

SeqNext ==
    \/ Quiet /\ (ProtocolStart \/ AdminStart)
    \/ ProtocolStep
    \/ AdminStep

SeqSpec == Init /\ [][SeqNext]_vars

(* The service with no caller of processClaim or runFraudDetection: the    *)
(* only screening is the one create schedules.  Continuation(p) is the     *)
(* step task p takes when the call it awaits returns, or when its timer    *)
(* fires; the event loop runs every such step eventually, while nothing    *)
(* obliges a caller to start an operation.                                 *)
LiveNext ==
    \/ \E t \in Callers, u \in BOOLEAN : CreateSave(t, u)
    \/ \E t \in Callers, id \in ClaimIds, dto \in UpdateDtos, a \in BOOLEAN :
          UpdateStart(t, id, dto, a)
    \/ \E t \in Callers, id \in ClaimIds, a \in BOOLEAN :
          RemoveStart(t, id, a)
    \/ \E b \in Background : BackgroundStart(b)
    \/ \E t \in Procs : CreateNotify(t)
    \/ \E t \in Procs, d \in BOOLEAN : CreateNotified(t, d)
    \/ \E t \in Procs : RfdLoaded(t)
    \/ \E t \in Procs, r \in FraudResults : DetectSucceeds(t, r)
    \/ \E t \in Procs : DetectFails(t)
    \/ \E t \in Procs : RfdSaved(t)
    \/ \E t \in Procs : RfdFailSaved(t)
    \/ \E t \in Procs : UpdateLoaded(t)
    \/ \E t \in Procs : UpdateSaved(t)
    \/ \E t \in Procs, d \in BOOLEAN : UpdateNotified(t, d)
    \/ \E t \in Procs : RemoveLoaded(t)
    \/ \E t \in Procs : Removed(t)

Continuation(p) ==
    \/ BackgroundStart(p)
    \/ CreateNotify(p)
    \/ \E d \in BOOLEAN : CreateNotified(p, d)
    \/ RfdLoaded(p)
    \/ \E r \in FraudResults : DetectSucceeds(p, r)
    \/ DetectFails(p)
    \/ RfdSaved(p)
    \/ RfdFailSaved(p)
    \/ UpdateLoaded(p)
    \/ UpdateSaved(p)
    \/ \E d \in BOOLEAN : UpdateNotified(p, d)
    \/ RemoveLoaded(p)
    \/ Removed(p)

LiveSpec ==
    Init /\ [][LiveNext]_vars /\ \A p \in Procs : WF_vars(Continuation(p))

(* One getClaimStats call running beside the protocol operations, which   *)
(* here do not overlap one another: what a count sees depends only on the  *)
(* saves that land between two counts.                                     *)
OthersQuiet ==
    \A p \in Procs :
        task[p].kind # "stats" => task[p].pc \in {"idle", "scheduled", "done"}

StatsNext ==
    \/ OthersQuiet /\ ProtocolStart
    \/ ProtocolStep
    \/ /\ \A s \in Callers : task[s].kind # "stats"
       /\ \E t \in Callers : StatsStart(t)
    \/ \E t \in Procs, f \in ParallelCounts : StatsCount(t, f)
    \/ \E t \in Procs : StatsLast(t)

StatsSpec == Init /\ [][StatsNext]_vars

----------------------------------------------------------------------------
(* The claims. *)

Terminal == {"FLAGGED", "APPROVED", "REJECTED"}

(* C1: under create, background screening, runFraudDetection and           *)
(* processClaim in any interleaving (no update), every stored claim has    *)
(* status FLAGGED iff isFraudulent and fraudCheckCompleted are both true.  *)
FlaggedIffFraudulent ==
    \A id \in ClaimIds :
        store[id] # NullClaim =>
            ((store[id].status = "FLAGGED")
                <=> (store[id].isFraudulent /\ store[id].fraudCheckCompleted))

FlaggedReached ==
    \E id \in ClaimIds, t \in Callers :
        /\ store[id].status = "FLAGGED"
        /\ task[t].kind = "process" /\ task[t].id = id
        /\ task[t].pc = "done" /\ task[t].screening = "clean"
        /\ detectCalls[id] = 2

(* C2: detectFraud is invoked at most once per claim id, whatever the      *)
(* interleaving of the background task, processClaim and explicit          *)
(* runFraudDetection calls.                                                *)
ScreenerAtMostOnce ==
    \A id \in ClaimIds : detectCalls[id] <= 1

(* C3: verifyClaim is never invoked for a claim at a moment when the       *)
(* stored isFraudulent of that claim is true.                              *)
OracleNeverWhileFraudulent ==
    [][\A t \in Procs :
          (task[t].pc # "verifying" /\ task'[t].pc = "verifying")
              => ~store[task'[t].id].isFraudulent]_vars

(* C4: under the protocol operations, once the stored status of a claim    *)
(* is FLAGGED, APPROVED or REJECTED it never changes again.                *)
TerminalStatusFinal ==
    [][\A id \in ClaimIds :
          store[id].status \in Terminal
              => store'[id].status = store[id].status]_vars

(* C5: once the stored fraudCheckCompleted of a claim is true it is never  *)
(* false again while the claim exists, update included.                    *)
FraudCheckCompletedMonotonic ==
    [][\A id \in ClaimIds :
          (store[id].fraudCheckCompleted /\ store'[id] # NullClaim)
              => store'[id].fraudCheckCompleted]_vars

(* C6: processClaim on a PENDING claim whose own screening reports         *)
(* isFraudulent = true never calls the oracle or the notifier, and ends    *)
(* without error with the claim stored FLAGGED, isFraudulent and           *)
(* fraudCheckCompleted true and no oracleData (operations not overlapping).*)
FraudulentScreeningStopsProcess ==
    [][\A t \in Callers :
          (task'[t].kind = "process" /\ task'[t].screening = "fraud")
              => /\ task'[t].oracleCalls = 0
                 /\ task'[t].notifyCalls = 0
                 /\ task'[t].verdict = "none"
                 /\ task'[t].pc \in {"rfdSaved", "reloaded", "done"}
                 /\ (task[t].pc # "done" /\ task'[t].pc = "done")
                       => /\ task'[t].result = "ok"
                          /\ store'[task'[t].id].status = "FLAGGED"
                          /\ store'[task'[t].id].isFraudulent
                          /\ store'[task'[t].id].fraudCheckCompleted
                          /\ store'[task'[t].id].oracleData = "null"]_vars

ProcessEndedFlagged ==
    \E t \in Callers :
        /\ task[t].kind = "process" /\ task[t].screening = "fraud"
        /\ task[t].pc = "done" /\ task[t].result = "ok"
        /\ store[task[t].id].status = "FLAGGED"

(* C7 as stated: processClaim on an existing claim that is not PENDING     *)
(* fails with an InvalidState error, distinct from the NotFound error of   *)
(* a missing claim, writing nothing and calling no collaborator.           *)
NonPendingFailsInvalidState ==
    [][\A t \in Callers :
          (/\ task[t].kind = "process" /\ task[t].pc = "loaded"
           /\ task'[t].pc # "loaded"
           /\ task[t].claim # NullClaim
           /\ task[t].claim.status # "PENDING")
              => /\ task'[t].pc = "done"
                 /\ task'[t].result = "InvalidStateException"
                 /\ store' = store /\ detectCalls' = detectCalls]_vars

(* C7 as amended: processClaim on an existing claim that is not PENDING    *)
(* fails with the same NotFoundException as for a missing claim; the       *)
(* store is unchanged and the screener, oracle and notifier are not        *)
(* called.                                                                 *)
NonPendingFailsNotFound ==
    [][\A t \in Callers :
          (/\ task[t].kind = "process" /\ task[t].pc = "loaded"
           /\ task'[t].pc # "loaded"
           /\ (task[t].claim = NullClaim \/ task[t].claim.status # "PENDING"))
              => /\ task'[t].pc = "done"
                 /\ task'[t].result = "NotFoundException"
                 /\ store' = store /\ detectCalls' = detectCalls
                 /\ task'[t].writes = 0
                 /\ task'[t].screening = "none"
                 /\ task'[t].oracleCalls = 0
                 /\ task'[t].notifyCalls = 0]_vars

NonPendingRefused ==
    \E t \in Callers :
        /\ task[t].kind = "process" /\ task[t].pc = "done"
        /\ task[t].result = "NotFoundException"
        /\ task[t].claim # NullClaim
        /\ task[t].claim.status \in Terminal
        /\ store[task[t].id] = task[t].claim

(* C8: when the oracle returns v, the record processClaim persists has     *)
(* status APPROVED for "approved", REJECTED for "rejected" and PENDING for *)
(* any other v, and its oracleData records v in all three cases.           *)
VerdictMapping ==
    [][\A t \in Callers :
          (task[t].pc = "verifying" /\ task'[t].pc = "verdictSaved")
              => LET v == task'[t].verdict
                     c == store'[task[t].id]
                 IN  /\ v \in Verdicts
                     /\ c.oracleData = v
                     /\ (v = "approved" => c.status = "APPROVED")
                     /\ (v = "rejected" => c.status = "REJECTED")
                     /\ (v \notin {"approved", "rejected"}
                            => c.status = "PENDING")]_vars

UnknownVerdictRecorded ==
    \E t \in Callers :
        /\ task[t].pc = "verdictSaved" /\ task[t].verdict = "maybe"
        /\ store[task[t].id].status = "PENDING"
        /\ store[task[t].id].oracleData = "maybe"

(* C9: when detectFraud fails inside runFraudDetection on a claim loaded   *)
(* with fraudCheckCompleted = false, the record persisted has              *)
(* fraudCheckCompleted = true and the loaded isFraudulent,                 *)
(* fraudConfidenceScore, fraudDetectionData and status (the stored values  *)
(* when no other writer intervened), and the failure is raised again.      *)
ScreenerFailureMarksCompleted ==
    [][\A t \in Procs :
          /\ (task[t].pc = "detecting" /\ task'[t].pc = "rfdFailSaved")
                => LET loaded == task[t].fclaim
                       before == store[task[t].id]
                       c == store'[task[t].id]
                   IN  /\ ~loaded.fraudCheckCompleted
                       /\ c.fraudCheckCompleted
                       /\ c.isFraudulent = loaded.isFraudulent
                       /\ c.fraudConfidenceScore = loaded.fraudConfidenceScore
                       /\ c.fraudDetectionData = loaded.fraudDetectionData
                       /\ c.status = loaded.status
                       /\ (before = loaded
                             => c = [before EXCEPT !.fraudCheckCompleted = TRUE])
          /\ (task[t].pc = "rfdFailSaved" /\ task'[t].pc # "rfdFailSaved")
                => /\ task'[t].pc = "done"
                   /\ task'[t].screening = "failed"
                   /\ (task[t].kind # "background"
                         => task'[t].result = "FraudServiceError")]_vars

ScreenerFailureRaised ==
    \E t \in Callers :
        /\ task[t].kind = "screen" /\ task[t].pc = "done"
        /\ task[t].result = "FraudServiceError"
        /\ store[task[t].id].fraudCheckCompleted
        /\ ~store[task[t].id].isFraudulent
        /\ store[task[t].id].status = "PENDING"

(* C10: when the screening run by processClaim fails, processClaim fails   *)
(* with that error without calling the oracle or the notifier, records no  *)
(* oracleData and leaves the status PENDING (operations not overlapping).  *)
FailedScreeningFailsProcess ==
    [][\A t \in Callers :
          (task'[t].kind = "process" /\ task'[t].screening = "failed")
              => /\ task'[t].oracleCalls = 0
                 /\ task'[t].notifyCalls = 0
                 /\ task'[t].verdict = "none"
                 /\ task'[t].pc \in {"rfdFailSaved", "done"}
                 /\ task'[t].pc = "done"
                       => task'[t].result = "FraudServiceError"
                 /\ (task[t].pc # "done" /\ task'[t].pc = "done")
                       => /\ store'[task'[t].id].status = "PENDING"
                          /\ store'[task'[t].id].oracleData = "null"]_vars

ProcessFailedOnScreening ==
    \E t \in Callers :
        /\ task[t].kind = "process" /\ task[t].screening = "failed"
        /\ task[t].pc = "done" /\ task[t].result = "FraudServiceError"
        /\ store[task[t].id].status = "PENDING"
        /\ store[task[t].id].fraudCheckCompleted

(* C11: when verifyClaim fails inside processClaim the failure reaches the *)
(* caller, the stored claim is untouched and still PENDING, no verdict is  *)
(* recorded and no notification sent; the next processClaim on the same    *)
(* claim is accepted and calls the oracle again (operations not            *)
(* overlapping).                                                           *)
OracleFailureLeavesPendingRetriable ==
    [][\A t \in Callers :
          /\ (task[t].pc = "verifying" /\ task'[t].pc = "done")
                => /\ task'[t].result = "OracleError"
                   /\ store' = store
                   /\ store'[task[t].id].status = "PENDING"
                   /\ task'[t].verdict = "none"
                   /\ task'[t].notifyCalls = 0
                   /\ task'[t].writes = task[t].writes
          /\ \A t2 \in Callers :
                (/\ t2 = t + 1
                 /\ task'[t].kind = "process"
                 /\ task'[t].result = "OracleError"
                 /\ task'[t2].kind = "process"
                 /\ task'[t2].id = task'[t].id
                 /\ task'[t2].pc # "loaded")
                    => /\ task'[t2].oracleCalls = 1
                       /\ task'[t2].result # "NotFoundException"]_vars

OracleRetried ==
    \E t \in Callers, t2 \in Callers :
        /\ t2 = t + 1
        /\ task[t].kind = "process" /\ task[t].result = "OracleError"
        /\ task[t2].kind = "process" /\ task[t2].id = task[t].id
        /\ task[t2].oracleCalls = 1 /\ task[t2].verdict = "approved"
        /\ store[task[t2].id].status = "APPROVED"

(* C12: a notifier failure never fails the operation that triggered it:    *)
(* create, update with a status change and processClaim report success     *)
(* when the notification call throws, whether or not the owner resolves.   *)
NotifierFailureNeverFails ==
    \A t \in Callers :
        (task[t].pc = "done" /\ task[t].notifyFailed)
            => task[t].result = "ok"

(* C13: runFraudDetection called twice in sequence on one claim: the       *)
(* second call loads fraudCheckCompleted = true and returns without        *)
(* calling detectFraud, without a save and without an error, so the stored *)
(* record is exactly what the first call left.                             *)
SecondScreeningIsNoop ==
    [][\A t \in Callers :
          /\ (/\ task[t].kind = "screen" /\ task[t].pc = "rfdLoaded"
              /\ task'[t].pc # "rfdLoaded"
              /\ task[t].fclaim # NullClaim
              /\ task[t].fclaim.fraudCheckCompleted)
                => /\ task'[t].pc = "done"
                   /\ task'[t].result = "ok"
                   /\ task'[t].screening = "noop"
                   /\ task'[t].writes = 0
                   /\ store' = store
                   /\ detectCalls' = detectCalls
          /\ \A t2 \in Callers :
                (/\ t2 = t + 1
                 /\ task'[t].kind = "screen" /\ task'[t].pc = "done"
                 /\ task'[t].screening \in {"clean", "fraud", "failed"}
                 /\ task'[t2].kind = "screen"
                 /\ task'[t2].id = task'[t].id)
                    => /\ task'[t2].fclaim.fraudCheckCompleted
                       /\ task'[t2].fclaim = task'[t].fclaim
                       /\ task'[t2].screening \in {"none", "noop"}
                       /\ task'[t2].pc \in {"rfdLoaded", "done"}
                       /\ (task[t2].pc = "rfdLoaded" /\ task'[t2].pc = "done")
                             => store'[task'[t].id] = task'[t].fclaim]_vars

ScreenedTwice ==
    \E t \in Callers, t2 \in Callers :
        /\ t2 = t + 1
        /\ task[t].kind = "screen" /\ task[t].screening = "fraud"
        /\ task[t2].kind = "screen" /\ task[t2].id = task[t].id
        /\ task[t2].pc = "done" /\ task[t2].screening = "noop"
        /\ task[t2].result = "ok"
        /\ store[task[t].id] = task[t].fclaim
        /\ detectCalls[task[t].id] = 1

(* C14: the stored isFraudulent, fraudConfidenceScore and                  *)
(* fraudDetectionData are changed only by a save of runFraudDetection:     *)
(* the verdict save of processClaim and the save of update leave them as   *)
(* stored, and a save of runFraudDetection leaves the stored oracleData.   *)
FraudFieldsOwnedByScreening ==
    [][\A t \in Procs :
          LET before == store[task[t].id]
              after == store'[task[t].id]
          IN  /\ (/\ \/ task[t].pc = "verifying" /\ task'[t].pc = "verdictSaved"
                     \/ task[t].pc = "updLoaded" /\ task'[t].pc = "updSaved"
                  /\ before # NullClaim)
                    => /\ after.isFraudulent = before.isFraudulent
                       /\ after.fraudConfidenceScore = before.fraudConfidenceScore
                       /\ after.fraudDetectionData = before.fraudDetectionData
              /\ (/\ task[t].pc = "detecting"
                  /\ task'[t].pc \in {"rfdSaved", "rfdFailSaved"}
                  /\ before # NullClaim)
                    => after.oracleData = before.oracleData]_vars

(* C15: a processClaim that loads a claim left by a failed screening       *)
(* (PENDING, fraudCheckCompleted = true, isFraudulent = false, no          *)
(* fraudDetectionData) goes straight to the oracle without calling         *)
(* detectFraud again, and the verdict it gets is mapped to the stored      *)
(* status: the failed screening does not block the claim.                  *)
FailedScreeningDoesNotBlock ==
    [][\A t \in Callers :
          LET c == task[t].claim
              unscreened == /\ task[t].kind = "process"
                            /\ c # NullClaim
                            /\ c.fraudCheckCompleted
                            /\ ~c.isFraudulent
                            /\ c.fraudDetectionData = "null"
                            /\ detectCalls[task[t].id] >= 1
          IN  /\ (/\ unscreened /\ c.status = "PENDING"
                  /\ task[t].pc = "loaded" /\ task'[t] # task[t])
                    => /\ task'[t].pc = "verifying"
                       /\ task'[t].oracleCalls = 1
                       /\ task'[t].screening = "none"
                       /\ task'[t].result = "none"
                       /\ detectCalls' = detectCalls
              /\ (/\ unscreened
                  /\ task[t].pc = "verifying"
                  /\ task'[t].pc = "verdictSaved")
                    => LET v == task'[t].verdict
                           s == store'[task[t].id]
                       IN  /\ s.oracleData = v
                           /\ (v = "approved" => s.status = "APPROVED")
                           /\ (v = "rejected" => s.status = "REJECTED")
                           /\ s.fraudCheckCompleted /\ ~s.isFraudulent
                           /\ detectCalls' = detectCalls]_vars

ApprovedAfterFailedScreening ==
    \E t \in Callers :
        /\ task[t].kind = "process" /\ task[t].pc = "done"
        /\ task[t].result = "ok" /\ task[t].verdict = "approved"
        /\ task[t].screening = "none"
        /\ detectCalls[task[t].id] = 1
        /\ store[task[t].id].status = "APPROVED"
        /\ store[task[t].id].fraudCheckCompleted
        /\ store[task[t].id].fraudDetectionData = "null"

(* C16: with no caller of processClaim or runFraudDetection, once create   *)
(* has saved a claim the store eventually holds it with                    *)
(* fraudCheckCompleted = true, unless it is removed, provided the timer    *)
(* callback runs and every awaited call returns.                           *)
CreatedEventuallyScreened ==
    \A id \in ClaimIds :
        (\E t \in Callers : /\ task[t].kind = "create"
                            /\ task[t].pc = "created"
                            /\ task[t].id = id
                            /\ store[id] # NullClaim
                            /\ ~store[id].fraudCheckCompleted)
            ~> (store[id] = NullClaim \/ store[id].fraudCheckCompleted)

BackgroundScreened ==
    \E b \in Background :
        /\ task[b].kind = "background" /\ task[b].pc = "done"
        /\ task[b].screening \in {"clean", "fraud", "failed"}
        /\ store[task[b].id] # NullClaim
        /\ store[task[b].id].fraudCheckCompleted
        /\ \A t \in Callers : task[t].kind \notin {"process", "screen"}

(* C17: the claim create returns is PENDING with fraudCheckCompleted =     *)
(* false; the screening it schedules has not started, and so has not       *)
(* called detectFraud, until create has returned; create returns           *)
(* normally, and the background screening ends without an error for        *)
(* anyone, also when detectFraud failed or the claim was gone.             *)
CreateReturnsBeforeScreening ==
    \A t \in Callers :
        task[t].kind = "create" =>
            LET b == BackgroundOf(task[t].id)
            IN  /\ task[t].claim.status = "PENDING"
                /\ ~task[t].claim.fraudCheckCompleted
                /\ task[t].pc # "done"
                      => /\ task[b].pc = "idle"
                         /\ task[b].screening = "none"
                /\ task[t].pc = "done" => task[t].result = "ok"
                /\ task[t].result \in {"none", "ok"}
                /\ task[b].result \in {"none", "ok"}
                /\ task[b].pc = "done" => task[b].result = "ok"

BackgroundFailureSwallowed ==
    \E t \in Callers :
        /\ task[t].kind = "create" /\ task[t].pc = "done"
        /\ task[t].result = "ok"
        /\ task[t].claim.status = "PENDING"
        /\ ~task[t].claim.fraudCheckCompleted
        /\ task[BackgroundOf(task[t].id)].pc = "done"
        /\ task[BackgroundOf(task[t].id)].screening = "failed"
        /\ task[BackgroundOf(task[t].id)].result = "ok"

(* C18, as stated: whatever runs beside it, getClaimStats returns          *)
(* fraudCheckPending = total - fraudCheckCompleted, which is the number    *)
(* of stored claims with fraudCheckCompleted = false at the return and is  *)
(* not negative, and pending + approved + rejected + flagged = total.      *)
StatsAlwaysConsistent ==
    [][\A t \in Callers :
          (task[t].pc = "counted" /\ task'[t].pc = "done")
              => LET n == task'[t].counts
                 IN  /\ task'[t].fraudCheckPending =
                            n["total"] - n["fraudCheckCompleted"]
                     /\ task'[t].fraudCheckPending >= 0
                     /\ task'[t].fraudCheckPending =
                            Cardinality({id \in ClaimIds :
                                /\ store'[id] # NullClaim
                                /\ ~store'[id].fraudCheckCompleted})
                     /\ n["pending"] + n["approved"] + n["rejected"]
                            + n["flagged"] = n["total"]]_vars

(* C18, amended: the same holds of a getClaimStats call whose seven        *)
(* counts were all evaluated on the same store contents; the skew between  *)
(* counters appears only when a save lands between two counts.             *)
StatsConsistentWhenStable ==
    [][\A t \in Callers :
          (task[t].pc = "counted" /\ task'[t].pc = "done"
              /\ task'[t].stable)
              => LET n == task'[t].counts
                 IN  /\ task'[t].fraudCheckPending =
                            n["total"] - n["fraudCheckCompleted"]
                     /\ task'[t].fraudCheckPending >= 0
                     /\ task'[t].fraudCheckPending =
                            Cardinality({id \in ClaimIds :
                                /\ store'[id] # NullClaim
                                /\ ~store'[id].fraudCheckCompleted})
                     /\ n["pending"] + n["approved"] + n["rejected"]
                            + n["flagged"] = n["total"]
                     /\ n["fraudulent"] =
                            Cardinality({id \in ClaimIds :
                                /\ store'[id] # NullClaim
                                /\ store'[id].isFraudulent})]_vars

StatsOfScreenedClaim ==
    \E t \in Callers :
        /\ task[t].kind = "stats" /\ task[t].pc = "done"
        /\ task[t].stable
        /\ task[t].counts["total"] = 1
        /\ task[t].counts["fraudCheckCompleted"] = 1
        /\ task[t].counts["fraudulent"] = 0
        /\ task[t].fraudCheckPending = 0
        /\ \E p \in Procs : task[p].kind # "stats"
                               /\ task[p].pc \notin {"idle", "scheduled", "done"}

(* C19: with create, runFraudDetection and processClaim in any             *)
(* interleaving and no update, a stored APPROVED claim has                 *)
(* fraudCheckCompleted = true, isFraudulent = false and oracleData         *)
(* "approved", and a stored REJECTED claim has the same with oracleData    *)
(* "rejected".                                                             *)
DecidedClaimsScreenedAndClean ==
    \A id \in ClaimIds :
        /\ store[id].status = "APPROVED"
              => /\ store[id].fraudCheckCompleted
                 /\ ~store[id].isFraudulent
                 /\ store[id].oracleData = "approved"
        /\ store[id].status = "REJECTED"
              => /\ store[id].fraudCheckCompleted
                 /\ ~store[id].isFraudulent
                 /\ store[id].oracleData = "rejected"

RejectedWhileScreeningInFlight ==
    \E id \in ClaimIds :
        /\ store[id].status = "REJECTED"
        /\ store[id].fraudCheckCompleted
        /\ \E p \in Procs : /\ task[p].id = id
                            /\ task[p].pc \in {"detecting", "rfdLoaded"}

(* C20: once remove has deleted a claim, its id is never in the store      *)
(* again: no runFraudDetection, background screening or processClaim that  *)
(* loaded the claim before the deletion saves it back.                     *)
RemovedStaysRemoved ==
    [][\A t \in Procs :
          (/\ task[t].kind \in {"screen", "background", "process"}
           /\ task'[t].writes = task[t].writes + 1
           /\ task[t].id < nextId
           /\ store[task[t].id] = NullClaim)
              => store'[task[t].id] = NullClaim]_vars

====
